---- MODULE Spec2Model ----
(***************************************************************************)
(* Boxer records and their win/loss statistics, as implemented by          *)
(* hw2/boxing/models/boxers_model.py on top of the sqlite table `boxers`.  *)
(* Every call of the module is one step; `last` records the call, its      *)
(* arguments and how it ended (normal return or the raise site reached).   *)
(* SpecConc interleaves the SELECT and the write of concurrent callers;    *)
(* SpecSession is Boxers.update_stats of the HW3 model class on its ORM    *)
(* session.                                                                *)
(***************************************************************************)
EXTENDS Integers, Sequences, FiniteSets, TLC

\* ---- bounds of the model ------------------------------------------------
MaxId == 2          \* rows ever inserted (ids 1..MaxId)
MaxFights == 2      \* fights recorded per boxer
MaxWeight == 250    \* weights get_weight_class is tried with: 0..MaxWeight
NProcs == 2         \* callers running at the same time
MaxCalls == 4       \* calls made by the concurrent callers altogether

\* ---- inputs the calls are tried with -------------------------------------
Names == { <<>>, <<" ">>, <<"a">>, <<" ", "a">>, <<"b">> }
Weights == {124, 125}
Heights == {0, 70}
Reaches == {-1, 20}
Ages == {17, 18, 41}
\* create_boxer is tried with every name under valid numeric fields, with each
\* numeric field invalid on its own, and with several fields invalid at once
CreateInputs ==
    (Names \X {125} \X {70} \X {20} \X {18})
    \cup {<< <<"b">>, 203, 70, 20, 40 >>}
    \cup {<< <<"a">>, 124, 70, 20, 18 >>, << <<"a">>, 125, 0, 20, 18 >>,
          << <<"a">>, 125, 70, -1, 18 >>, << <<"a">>, 125, 70, 20, 17 >>,
          << <<"a">>, 125, 70, 20, 41 >>}
    \cup {<< <<>>, 124, 0, -1, 17 >>, << <<>>, 125, 0, -1, 41 >>,
          << <<" ">>, 125, 70, -1, 17 >>, << <<>>, 125, 70, 20, 41 >>}
Ids == 1 .. (MaxId + 1)
Results == {"win", "loss", "draw"}
SortBys == {"wins", "win_pct", "fights"}

\* boxers  : the rows of table `boxers` (id, name, weight, height, reach, age,
\*           fights, wins); name is the column the UNIQUE constraint is on
\* nextId  : the id the next INSERT is given (autoincrement, never reused)
\* deleted : history: the ids whose DELETE was committed
\* last    : history: the last call, its arguments, "ok" or the raise reached,
\*           and the value returned (<<>> for None)
\* procs   : for each concurrent caller, where it is inside its call (between
\*           the SELECT and the write) and the arguments of that call
\* tally   : history: calls started, per id the update calls that returned
\*           normally (all of them, and those with result "win"), and the ids
\*           for which an UPDATE ran while another caller was about to run one
\* session : the ORM session of the Boxers model class: objs, the counters of
\*           the objects it holds (as changed in memory, not yet committed), and
\*           history: rejected, the counters a failed update_stats had computed
VARIABLES boxers, nextId, deleted, last, procs, tally, session

vars == <<boxers, nextId, deleted, last, procs, tally, session>>

Procs == 1 .. NProcs
ConcIds == {1, 2}
ConcNames == { <<"a">>, <<" ", "a">> }
ConcResults == {"win", "loss", "draw"}

Idle == [at |-> "idle", args |-> <<>>]

\* ---- pure helpers ---------------------------------------------------------
RECURSIVE lstrip(_)
lstrip(s) == IF s # <<>> /\ Head(s) = " " THEN lstrip(Tail(s)) ELSE s

RECURSIVE rstrip(_)
rstrip(s) == IF s # <<>> /\ s[Len(s)] = " " THEN rstrip(SubSeq(s, 1, Len(s) - 1)) ELSE s

\* Python's str.strip() on a name
strip(s) == rstrip(lstrip(s))

get_weight_class_lowFeather(weight) ==
    IF weight >= 203 THEN "HEAVYWEIGHT"
    ELSE IF weight >= 166 THEN "MIDDLEWEIGHT"
    ELSE IF weight > 133 THEN "LIGHTWEIGHT"
    ELSE IF weight >= 125 THEN "FEATHERWEIGHT"
    ELSE "InvalidWeight"

\* the weight class, or the raise site "InvalidWeight"
get_weight_class(weight) ==
    IF weight >= 203 THEN "HEAVYWEIGHT"
    ELSE IF weight >= 166 THEN "MIDDLEWEIGHT"
    ELSE IF weight >= 133 THEN "LIGHTWEIGHT"
    ELSE IF weight >= 125 THEN "FEATHERWEIGHT"
    ELSE "InvalidWeight"

\* the Boxer dataclass built from a row; __post_init__ derives weight_class
Boxer(row) ==
    [id |-> row.id, name |-> row.name, weight |-> row.weight,
     height |-> row.height, reach |-> row.reach, age |-> row.age,
     weight_class |-> get_weight_class(row.weight)]

\* the row INSERT stores: id from the autoincrement counter, counters default 0
NewRow(id, name, weight, height, reach, age) ==
    [id |-> id, name |-> name, weight |-> weight, height |-> height,
     reach |-> reach, age |-> age, fights |-> 0, wins |-> 0]

Call(op, args, outcome, ret) ==
    [op |-> op, args |-> args, outcome |-> outcome, ret |-> ret]

Init ==
    /\ boxers = {}
    /\ nextId = 1
    /\ deleted = {}
    /\ last = Call("none", <<>>, "ok", <<>>)
    /\ procs = [p \in Procs |-> Idle]
    /\ tally = [calls |-> 0, upd |-> [i \in ConcIds |-> 0], win |-> [i \in ConcIds |-> 0],
                raced |-> {}]
    /\ session = [objs |-> <<>>, rejected |-> {}]

\* ---- create_boxer ---------------------------------------------------------
CreateOutcome_ageUpTo41(name, weight, height, reach, age) ==
    IF weight < 125 THEN "InvalidWeight"
    ELSE IF height <= 0 THEN "InvalidHeight"
    ELSE IF reach <= 0 THEN "InvalidReach"
    ELSE IF ~(18 <= age /\ age <= 41) THEN "InvalidAge"
    ELSE IF \E b \in boxers : b.name = name THEN "AlreadyExists"
    ELSE "ok"

\* how create_boxer ends: the first raise reached, or "ok"
CreateOutcome(name, weight, height, reach, age) ==
    IF weight < 125 THEN "InvalidWeight"
    ELSE IF height <= 0 THEN "InvalidHeight"
    ELSE IF reach <= 0 THEN "InvalidReach"
    ELSE IF ~(18 <= age /\ age <= 40) THEN "InvalidAge"
    ELSE IF \E b \in boxers : b.name = name THEN "AlreadyExists"
    ELSE "ok"

create_boxer_writeFirst(name, weight, height, reach, age) ==
    LET outcome == CreateOutcome(name, weight, height, reach, age) IN
    /\ nextId <= MaxId
    /\ boxers' = boxers \cup {NewRow(nextId, name, weight, height, reach, age)}
    /\ nextId' = nextId + 1
    /\ deleted' = deleted
    /\ last' = Call("create", <<name, weight, height, reach, age>>, outcome, <<>>)

create_boxer(name, weight, height, reach, age) ==
    LET outcome == CreateOutcome(name, weight, height, reach, age) IN
    /\ outcome = "ok" => nextId <= MaxId
    /\ IF outcome = "ok"
       THEN /\ boxers' = boxers \cup {NewRow(nextId, name, weight, height, reach, age)}
            /\ nextId' = nextId + 1
       ELSE UNCHANGED <<boxers, nextId>>
    /\ deleted' = deleted
    /\ last' = Call("create", <<name, weight, height, reach, age>>, outcome, <<>>)

\* ---- delete_boxer ---------------------------------------------------------
delete_boxer_noCheck(boxer_id) ==
    /\ boxers' = {b \in boxers : b.id # boxer_id}
    /\ deleted' = deleted \cup {boxer_id}
    /\ UNCHANGED nextId
    /\ last' = Call("delete", <<boxer_id>>, "ok", <<>>)

delete_boxer(boxer_id) ==
    IF \E b \in boxers : b.id = boxer_id
    THEN /\ boxers' = {b \in boxers : b.id # boxer_id}
         /\ deleted' = deleted \cup {boxer_id}
         /\ UNCHANGED nextId
         /\ last' = Call("delete", <<boxer_id>>, "ok", <<>>)
    ELSE /\ UNCHANGED <<boxers, nextId, deleted>>
         /\ last' = Call("delete", <<boxer_id>>, "NotFound", <<>>)

\* ---- get_boxer_by_id / get_boxer_by_name ----------------------------------
get_boxer_by_id(boxer_id) ==
    LET rows == {b \in boxers : b.id = boxer_id} IN
    /\ UNCHANGED <<boxers, nextId, deleted>>
    /\ IF rows # {}
       THEN \E row \in rows :
              last' = IF get_weight_class(row.weight) = "InvalidWeight"
                      THEN Call("get_by_id", <<boxer_id>>, "InvalidWeight", <<>>)
                      ELSE Call("get_by_id", <<boxer_id>>, "ok", <<Boxer(row)>>)
       ELSE last' = Call("get_by_id", <<boxer_id>>, "NotFound", <<>>)

get_boxer_by_name(boxer_name) ==
    LET rows == {b \in boxers : b.name = boxer_name} IN
    /\ UNCHANGED <<boxers, nextId, deleted>>
    /\ IF rows # {}
       THEN \E row \in rows :
              last' = IF get_weight_class(row.weight) = "InvalidWeight"
                      THEN Call("get_by_name", <<boxer_name>>, "InvalidWeight", <<>>)
                      ELSE Call("get_by_name", <<boxer_name>>, "ok", <<Boxer(row)>>)
       ELSE last' = Call("get_by_name", <<boxer_name>>, "NotFound", <<>>)

\* ---- get_weight_class called on its own ------------------------------------
classify(weight) ==
    LET c == get_weight_class(weight) IN
    /\ UNCHANGED <<boxers, nextId, deleted>>
    /\ last' = IF c = "InvalidWeight"
               THEN Call("classify", <<weight>>, "InvalidWeight", <<>>)
               ELSE Call("classify", <<weight>>, "ok", <<c>>)

\* ---- update_boxer_stats -----------------------------------------------------
\* the UPDATE statement run for a valid result on the row with this id
UpdatedRow_lossCountsWin(b, result) ==
    IF result = "win"
    THEN [b EXCEPT !.fights = @ + 1, !.wins = @ + 1]
    ELSE [b EXCEPT !.wins = @ + 1]

UpdatedRow_winsOnly(b, result) ==
    IF result = "win"
    THEN [b EXCEPT !.wins = @ + 1]
    ELSE [b EXCEPT !.fights = @ + 1]

UpdatedRow(b, result) ==
    IF result = "win"
    THEN [b EXCEPT !.fights = @ + 1, !.wins = @ + 1]
    ELSE [b EXCEPT !.fights = @ + 1]

update_boxer_stats_updateFirst(boxer_id, result) ==
    /\ \A b \in boxers : b.id = boxer_id => b.fights < MaxFights
    /\ boxers' = {IF b.id = boxer_id THEN UpdatedRow(b, "loss") ELSE b : b \in boxers}
    /\ UNCHANGED <<nextId, deleted>>
    /\ last' = Call("update", <<boxer_id, result>>,
                    IF result \notin {"win", "loss"} THEN "InvalidResult"
                    ELSE IF ~(\E b \in boxers : b.id = boxer_id) THEN "NotFound"
                    ELSE "ok", <<>>)

update_boxer_stats_allRows(boxer_id, result) ==
    /\ UNCHANGED <<nextId, deleted>>
    /\ IF result \notin {"win", "loss"}
       THEN /\ UNCHANGED boxers
            /\ last' = Call("update", <<boxer_id, result>>, "InvalidResult", <<>>)
       ELSE IF ~(\E b \in boxers : b.id = boxer_id)
       THEN /\ UNCHANGED boxers
            /\ last' = Call("update", <<boxer_id, result>>, "NotFound", <<>>)
       ELSE /\ \A b \in boxers : b.fights < MaxFights
            /\ boxers' = {UpdatedRow(b, result) : b \in boxers}
            /\ last' = Call("update", <<boxer_id, result>>, "ok", <<>>)

update_boxer_stats(boxer_id, result) ==
    /\ UNCHANGED <<nextId, deleted>>
    /\ IF result \notin {"win", "loss"}
       THEN /\ UNCHANGED boxers
            /\ last' = Call("update", <<boxer_id, result>>, "InvalidResult", <<>>)
       ELSE IF ~(\E b \in boxers : b.id = boxer_id)
       THEN /\ UNCHANGED boxers
            /\ last' = Call("update", <<boxer_id, result>>, "NotFound", <<>>)
       ELSE /\ \A b \in boxers : b.id = boxer_id => b.fights < MaxFights
            /\ boxers' = {IF b.id = boxer_id THEN UpdatedRow(b, result) ELSE b : b \in boxers}
            /\ last' = Call("update", <<boxer_id, result>>, "ok", <<>>)

\* ---- get_leaderboard ----------------------------------------------------------
\* round(x, 1) of x = 100 * wins / fights, in tenths of a percent (ties to even)
WinPctTenths(wins, fights) ==
    LET q == (1000 * wins) \div fights
        r == (1000 * wins) % fights
    IN IF 2 * r > fights THEN q + 1
       ELSE IF 2 * r < fights THEN q
       ELSE IF q % 2 = 0 THEN q ELSE q + 1

\* the dict built for one fetched row
LeaderboardRow(b) ==
    [id |-> b.id, name |-> b.name, weight |-> b.weight, height |-> b.height,
     reach |-> b.reach, age |-> b.age, weight_class |-> get_weight_class(b.weight),
     fights |-> b.fights, wins |-> b.wins, win_pct |-> WinPctTenths(b.wins, b.fights)]

\* ORDER BY ... DESC on rows a, b: a may come before b
OrderedDesc_ascending(a, b, sort_by) ==
    IF sort_by = "win_pct"
    THEN a.wins * b.fights <= b.wins * a.fights
    ELSE a.wins <= b.wins

OrderedDesc(a, b, sort_by) ==
    IF sort_by = "win_pct"
    THEN a.wins * b.fights >= b.wins * a.fights
    ELSE a.wins >= b.wins

\* the orders in which the query may return the rows with fights > 0
FetchAll(sort_by) ==
    LET rows == {b \in boxers : b.fights > 0}
        n == Cardinality(rows)
    IN {f \in [1 .. n -> rows] :
          /\ \A i, j \in 1 .. n : f[i] = f[j] => i = j
          /\ \A i, j \in 1 .. n : i < j => OrderedDesc(f[i], f[j], sort_by)}

get_leaderboard(sort_by) ==
    /\ UNCHANGED <<boxers, nextId, deleted>>
    /\ IF sort_by \notin {"win_pct", "wins"}
       THEN last' = Call("leaderboard", <<sort_by>>, "InvalidSortBy", <<>>)
       ELSE \E rows \in FetchAll(sort_by) :
              last' = IF \E i \in DOMAIN rows : get_weight_class(rows[i].weight) = "InvalidWeight"
                      THEN Call("leaderboard", <<sort_by>>, "InvalidWeight", <<>>)
                      ELSE Call("leaderboard", <<sort_by>>, "ok",
                                << [i \in DOMAIN rows |-> LeaderboardRow(rows[i])] >>)

\* one caller at a time: every call runs from start to end as one step
Next ==
    \/ \E sort_by \in SortBys : get_leaderboard(sort_by) /\ UNCHANGED <<procs, tally, session>>
    \/ \E in \in CreateInputs :
          create_boxer(in[1], in[2], in[3], in[4], in[5]) /\ UNCHANGED <<procs, tally, session>>
    \/ \E boxer_id \in Ids : delete_boxer(boxer_id) /\ UNCHANGED <<procs, tally, session>>
    \/ \E boxer_id \in Ids : get_boxer_by_id(boxer_id) /\ UNCHANGED <<procs, tally, session>>
    \/ \E boxer_name \in Names : get_boxer_by_name(boxer_name) /\ UNCHANGED <<procs, tally, session>>
    \/ \E boxer_id \in Ids, result \in Results :
          update_boxer_stats(boxer_id, result) /\ UNCHANGED <<procs, tally, session>>

Spec == Init /\ [][Next]_vars

\* get_weight_class as a pure function, applied to every weight of 0..MaxWeight
NextClassify == \E weight \in 0 .. MaxWeight : classify(weight) /\ UNCHANGED <<procs, tally, session>>

SpecClassify == Init /\ [][NextClassify]_vars

\* ---- concurrent callers ---------------------------------------------------------
\* Each caller opens its own connection; a call that passes its checks is two
\* steps, the SELECT (with the checks before it) and the write with its commit.
Started == [tally EXCEPT !.calls = @ + 1]

\* create_boxer up to and including the SELECT of the existence check
conc_create_select(p, name, weight, height, reach, age) ==
    LET outcome == CreateOutcome(name, weight, height, reach, age) IN
    /\ procs[p].at = "idle" /\ tally.calls < MaxCalls
    /\ tally' = Started
    /\ UNCHANGED <<boxers, nextId, deleted>>
    /\ IF outcome = "ok"
       THEN /\ procs' = [procs EXCEPT ![p] = [at |-> "create_insert",
                                             args |-> <<name, weight, height, reach, age>>]]
            /\ UNCHANGED last
       ELSE /\ procs' = [procs EXCEPT ![p] = Idle]
            /\ last' = Call("create", <<name, weight, height, reach, age>>, outcome, <<>>)

\* the INSERT and commit; the UNIQUE constraint on name raises IntegrityError,
\* which is re-raised as "already exists"
conc_create_insert(p) ==
    LET a == procs[p].args IN
    /\ procs[p].at = "create_insert"
    /\ procs' = [procs EXCEPT ![p] = Idle]
    /\ UNCHANGED <<deleted, tally>>
    /\ IF \E b \in boxers : b.name = a[1]
       THEN /\ UNCHANGED <<boxers, nextId>>
            /\ last' = Call("create", a, "AlreadyExists", <<>>)
       ELSE /\ boxers' = boxers \cup {NewRow(nextId, a[1], a[2], a[3], a[4], a[5])}
            /\ nextId' = nextId + 1
            /\ last' = Call("create", a, "ok", <<>>)

\* delete_boxer up to and including its SELECT
conc_delete_select(p, boxer_id) ==
    /\ procs[p].at = "idle" /\ tally.calls < MaxCalls
    /\ tally' = Started
    /\ UNCHANGED <<boxers, nextId, deleted>>
    /\ IF \E b \in boxers : b.id = boxer_id
       THEN /\ procs' = [procs EXCEPT ![p] = [at |-> "delete_write", args |-> <<boxer_id>>]]
            /\ UNCHANGED last
       ELSE /\ procs' = [procs EXCEPT ![p] = Idle]
            /\ last' = Call("delete", <<boxer_id>>, "NotFound", <<>>)

\* the DELETE and commit; a DELETE that matches no row is not an error
conc_delete_write(p) ==
    LET a == procs[p].args IN
    /\ procs[p].at = "delete_write"
    /\ procs' = [procs EXCEPT ![p] = Idle]
    /\ boxers' = {b \in boxers : b.id # a[1]}
    /\ deleted' = deleted \cup {a[1]}
    /\ UNCHANGED <<nextId, tally>>
    /\ last' = Call("delete", a, "ok", <<>>)

\* update_boxer_stats up to and including its SELECT
conc_update_select(p, boxer_id, result) ==
    /\ procs[p].at = "idle" /\ tally.calls < MaxCalls
    /\ tally' = Started
    /\ UNCHANGED <<boxers, nextId, deleted>>
    /\ IF result \notin {"win", "loss"}
       THEN /\ procs' = [procs EXCEPT ![p] = Idle]
            /\ last' = Call("update", <<boxer_id, result>>, "InvalidResult", <<>>)
       ELSE IF ~(\E b \in boxers : b.id = boxer_id)
       THEN /\ procs' = [procs EXCEPT ![p] = Idle]
            /\ last' = Call("update", <<boxer_id, result>>, "NotFound", <<>>)
       ELSE /\ procs' = [procs EXCEPT ![p] = [at |-> "update_write",
                                             args |-> <<boxer_id, result>>]]
            /\ UNCHANGED last

\* the id p is about to update, if another caller is about to update it too
Racing(p) ==
    {i \in ConcIds : /\ i = procs[p].args[1]
                     /\ \E q \in Procs : /\ q # p /\ procs[q].at = "update_write"
                                          /\ procs[q].args[1] = i}

conc_update_write_lost(p) ==
    LET a == procs[p].args IN
    /\ procs[p].at = "update_write"
    /\ procs' = [procs EXCEPT ![p] = Idle]
    /\ boxers' = IF Racing(p) # {}
                 THEN boxers
                 ELSE {IF b.id = a[1] THEN UpdatedRow(b, a[2]) ELSE b : b \in boxers}
    /\ tally' = [tally EXCEPT !.upd[a[1]] = @ + 1,
                              !.win[a[1]] = @ + (IF a[2] = "win" THEN 1 ELSE 0),
                              !.raced = @ \cup Racing(p)]
    /\ UNCHANGED <<nextId, deleted>>
    /\ last' = Call("update", a, "ok", <<>>)

\* the UPDATE (an increment done by the database) and commit; an UPDATE that
\* matches no row is not an error
conc_update_write(p) ==
    LET a == procs[p].args IN
    /\ procs[p].at = "update_write"
    /\ procs' = [procs EXCEPT ![p] = Idle]
    /\ boxers' = {IF b.id = a[1] THEN UpdatedRow(b, a[2]) ELSE b : b \in boxers}
    /\ tally' = [tally EXCEPT !.upd[a[1]] = @ + 1,
                              !.win[a[1]] = @ + (IF a[2] = "win" THEN 1 ELSE 0),
                              !.raced = @ \cup Racing(p)]
    /\ UNCHANGED <<nextId, deleted>>
    /\ last' = Call("update", a, "ok", <<>>)

NextConc ==
    \/ \E p \in Procs, name \in ConcNames, weight \in Weights :
          conc_create_select(p, name, weight, 70, 20, 18) /\ UNCHANGED session
    \/ \E p \in Procs : conc_create_insert(p) /\ UNCHANGED session
    \/ \E p \in Procs, boxer_id \in ConcIds : conc_delete_select(p, boxer_id) /\ UNCHANGED session
    \/ \E p \in Procs : conc_delete_write(p) /\ UNCHANGED session
    \/ \E p \in Procs, boxer_id \in ConcIds, result \in ConcResults :
          conc_update_select(p, boxer_id, result) /\ UNCHANGED session
    \/ \E p \in Procs : conc_update_write(p) /\ UNCHANGED session

SpecConc == Init /\ [][NextConc]_vars

\* ---- the Boxers model class on its ORM session ---------------------------------
\* The table is found as it is: two boxers whose counters are any values of the
\* bounds, a row with wins > fights (the case update_stats guards) included.
SessionIds == {1, 2}
SessionResults == {"win", "loss", "draw"}

StoredRow(id, fights, wins) ==
    [NewRow(id, IF id = 1 THEN <<"a">> ELSE <<"b">>, 125, 70, 20, 18)
        EXCEPT !.fights = fights, !.wins = wins]

InitSession ==
    /\ \E f1, f2 \in 0 .. MaxFights, w1, w2 \in 0 .. MaxFights :
          boxers = {StoredRow(1, f1, w1), StoredRow(2, f2, w2)}
    /\ nextId = 3
    /\ deleted = {}
    /\ last = Call("none", <<>>, "ok", <<>>)
    /\ procs = [p \in Procs |-> Idle]
    /\ tally = [calls |-> 0, upd |-> [i \in ConcIds |-> 0], win |-> [i \in ConcIds |-> 0],
                raced |-> {}]
    /\ session = [objs |-> <<>>, rejected |-> {}]

Loaded == DOMAIN session.objs

\* Boxers.get_boxer_by_id: the object of the session, loaded from its row if the
\* session does not hold it yet
sess_get_boxer_by_id(boxer_id) ==
    /\ UNCHANGED <<boxers, nextId, deleted, procs, tally>>
    /\ IF boxer_id \in Loaded
       THEN /\ UNCHANGED session
            /\ last' = Call("get_by_id", <<boxer_id>>, "ok", <<session.objs[boxer_id]>>)
       ELSE IF \E b \in boxers : b.id = boxer_id
       THEN \E b \in boxers :
              /\ b.id = boxer_id
              /\ session' = [session EXCEPT !.objs =
                    [i \in Loaded \cup {boxer_id} |->
                        IF i = boxer_id THEN [fights |-> b.fights, wins |-> b.wins]
                        ELSE session.objs[i]]]
              /\ last' = Call("get_by_id", <<boxer_id>>, "ok",
                              <<[fights |-> b.fights, wins |-> b.wins]>>)
       ELSE /\ UNCHANGED session
            /\ last' = Call("get_by_id", <<boxer_id>>, "NotFound", <<>>)

\* db.session.commit(): every object of the session is written to its row
Committed(objs) ==
    {IF b.id \in DOMAIN objs
     THEN [b EXCEPT !.fights = objs[b.id].fights, !.wins = objs[b.id].wins]
     ELSE b : b \in boxers}

\* Boxers.update_stats on an object the session holds
sess_update_stats(boxer_id, result) ==
    /\ boxer_id \in Loaded
    /\ session.objs[boxer_id].fights <= MaxFights
    /\ UNCHANGED <<nextId, deleted, procs, tally>>
    /\ IF result \notin {"win", "loss"}
       THEN /\ UNCHANGED <<boxers, session>>
            /\ last' = Call("update_stats", <<boxer_id, result>>, "InvalidResult", <<>>)
       ELSE LET o == session.objs[boxer_id]
                n == [fights |-> o.fights + 1,
                      wins |-> o.wins + (IF result = "win" THEN 1 ELSE 0)]
                objs == [session.objs EXCEPT ![boxer_id] = n]
            IN IF n.wins > n.fights
               THEN /\ session' = [objs |-> objs,
                                   rejected |-> session.rejected \cup
                                      {[id |-> boxer_id, fights |-> n.fights, wins |-> n.wins]}]
                    /\ UNCHANGED boxers
                    /\ last' = Call("update_stats", <<boxer_id, result>>,
                                    "WinsExceedFights", <<>>)
               ELSE /\ session' = [session EXCEPT !.objs = objs]
                    /\ boxers' = Committed(objs)
                    /\ last' = Call("update_stats", <<boxer_id, result>>, "ok", <<>>)

NextSession ==
    \/ \E boxer_id \in SessionIds \cup {3} : sess_get_boxer_by_id(boxer_id)
    \/ \E boxer_id \in SessionIds, result \in SessionResults :
          sess_update_stats(boxer_id, result)

SpecSession == InitSession /\ [][NextSession]_vars

\* ---- vocabulary of the claims ----------------------------------------------
ValidationErrors == {"InvalidWeight", "InvalidHeight", "InvalidReach", "InvalidAge",
                     "InvalidName", "InvalidResult", "InvalidSortBy"}
ConflictError == "AlreadyExists"
NotFoundError == "NotFound"
InvariantViolationError == "WinsExceedFights"

StoredIds == {b.id : b \in boxers}

LastIs(op) == last.op = op

C2_UpdateStep ==
    (last'.op = "update" /\ last'.outcome = "ok") =>
        \E b \in boxers : \E c \in boxers' :
            /\ b.id = last'.args[1] /\ c.id = last'.args[1]
            /\ c.fights = b.fights + 1
            /\ c.wins = b.wins + (IF last'.args[2] = "win" THEN 1 ELSE 0)
            /\ (last'.args[2] = "loss" => c.wins = b.wins)

C3_FailedUpdateStep ==
    (last'.op = "update" /\ last'.outcome # "ok") =>
        /\ boxers' = boxers
        /\ last'.outcome \in {"InvalidResult", NotFoundError}
        /\ (last'.outcome = "InvalidResult") <=> (last'.args[2] \notin {"win", "loss"})
        /\ (last'.outcome = NotFoundError) =>
               ~(\E b \in boxers : b.id = last'.args[1])

C3_FailedUpdateChangesNothing == [][C3_FailedUpdateStep]_vars

\* an invalid result was refused for a boxer that is stored and has fought
C3_Witness ==
    /\ LastIs("update") /\ last.outcome = "InvalidResult"
    /\ \E b \in boxers : b.id = last.args[1] /\ b.fights > 0

\* ---- C4 -----------------------------------------------------------------------
\* the first violated check in the order weight, height, reach, age, name
FirstViolation(name, weight, height, reach, age) ==
    IF weight < 125 THEN "InvalidWeight"
    ELSE IF height <= 0 THEN "InvalidHeight"
    ELSE IF reach <= 0 THEN "InvalidReach"
    ELSE IF age < 18 \/ age > 40 THEN "InvalidAge"
    ELSE IF strip(name) = <<>> THEN "InvalidName"
    ELSE "none"

\* C4: create fails with a validation error whenever weight < 125, height <= 0,
\* reach <= 0, age is outside 18..40 or the trimmed name is empty, and the error
\* is the one of the first violated check in that order.
C4_CreateValidates ==
    LastIs("create") =>
        LET v == FirstViolation(last.args[1], last.args[2], last.args[3],
                                last.args[4], last.args[5])
        IN v # "none" => (last.outcome = v /\ last.outcome \in ValidationErrors)

\* ---- C5 -----------------------------------------------------------------------
UniqueTrimmedNames ==
    \A b, c \in boxers : strip(b.name) = strip(c.name) => b = c

\* C5: once a boxer whose trimmed name is n is stored, a create whose name trims
\* to n fails with the conflict error and adds no record, so no state holds two
\* boxers with the same trimmed name.
C5_DuplicateStep ==
    /\ (/\ last'.op = "create"
        /\ last'.outcome \notin ValidationErrors
        /\ \E b \in boxers : strip(b.name) = strip(last'.args[1]))
       => (last'.outcome = ConflictError /\ boxers' = boxers)
    /\ UniqueTrimmedNames'

C5_TrimmedNameUnique == [][C5_DuplicateStep]_vars

\* ---- C6 -----------------------------------------------------------------------
\* C6: when create returns normally exactly one record was added, carrying the
\* trimmed name, the given weight, height, reach and age, fights = 0, wins = 0
\* and an id no other stored boxer has; a create that added no record ended in
\* an error.
C6_CreateStep ==
    last'.op = "create" =>
        /\ last'.outcome = "ok" =>
              \E r \in boxers' :
                 /\ r \notin boxers
                 /\ boxers' = boxers \cup {r}
                 /\ r.name = strip(last'.args[1])
                 /\ r.weight = last'.args[2] /\ r.height = last'.args[3]
                 /\ r.reach = last'.args[4] /\ r.age = last'.args[5]
                 /\ r.fights = 0 /\ r.wins = 0
                 /\ \A b \in boxers : b.id # r.id
        /\ boxers' = boxers => last'.outcome # "ok"

C6_CreateAddsOneRecord == [][C6_CreateStep]_vars

\* ---- C7 -----------------------------------------------------------------------
\* C7: a create that fails (validation or conflict) leaves the set of stored
\* boxers and all their fields unchanged.
C7_FailedCreateStep ==
    (last'.op = "create" /\ last'.outcome # "ok") => boxers' = boxers

C7_FailedCreateChangesNothing == [][C7_FailedCreateStep]_vars

\* a create was refused as a duplicate while the store held a boxer
C7_Witness ==
    /\ LastIs("create") /\ last.outcome = ConflictError
    /\ \E b \in boxers : b.name = last.args[1]

\* ---- C8 -----------------------------------------------------------------------
\* C8: delete of an id that is not stored fails with not-found and changes
\* nothing; delete of a stored id removes exactly that record; no id is ever
\* deleted successfully twice.
C8_DeleteStep ==
    last'.op = "delete" =>
        LET id == last'.args[1] IN
        IF id \in StoredIds
        THEN /\ last'.outcome = "ok"
             /\ id \notin deleted
             /\ boxers' = {b \in boxers : b.id # id}
             /\ Cardinality(boxers') = Cardinality(boxers) - 1
        ELSE /\ last'.outcome = NotFoundError
             /\ boxers' = boxers

C8_DeleteOnce == [][C8_DeleteStep]_vars

\* a second delete of an id that was deleted before, refused, others still stored
C8_Witness ==
    /\ LastIs("delete") /\ last.outcome = NotFoundError
    /\ last.args[1] \in deleted
    /\ boxers # {}

\* ---- C9 -----------------------------------------------------------------------
\* C9: get by id returns the stored boxer with that id, get by name the stored
\* boxer whose name equals the trimmed input; each fails with not-found exactly
\* when there is no such record.
C9_Lookup ==
    /\ LastIs("get_by_id") =>
          LET m == {b \in boxers : b.id = last.args[1]} IN
          /\ (m = {}) <=> (last.outcome = NotFoundError)
          /\ m # {} => (last.outcome = "ok" /\ last.ret \in {<<Boxer(b)>> : b \in m})
    /\ LastIs("get_by_name") =>
          LET m == {b \in boxers : b.name = strip(last.args[1])} IN
          /\ (m = {}) <=> (last.outcome = NotFoundError)
          /\ m # {} => (last.outcome = "ok" /\ last.ret \in {<<Boxer(b)>> : b \in m})

\* ---- C10 ----------------------------------------------------------------------
\* C10: classify(w) is HEAVYWEIGHT for w >= 203, MIDDLEWEIGHT for 166 <= w < 203,
\* LIGHTWEIGHT for 133 <= w < 166, FEATHERWEIGHT for 125 <= w < 133, and a
\* validation error for w < 125.
C10_ClassTable ==
    LastIs("classify") =>
        LET w == last.args[1] IN
        /\ w >= 203 => (last.outcome = "ok" /\ last.ret = <<"HEAVYWEIGHT">>)
        /\ (166 <= w /\ w < 203) => (last.outcome = "ok" /\ last.ret = <<"MIDDLEWEIGHT">>)
        /\ (133 <= w /\ w < 166) => (last.outcome = "ok" /\ last.ret = <<"LIGHTWEIGHT">>)
        /\ (125 <= w /\ w < 133) => (last.outcome = "ok" /\ last.ret = <<"FEATHERWEIGHT">>)
        /\ w < 125 => (last.outcome \in ValidationErrors /\ last.ret = <<>>)

\* the lower bound of LIGHTWEIGHT is inclusive
C10_Witness ==
    LastIs("classify") /\ last.args = <<133>> /\ last.ret = <<"LIGHTWEIGHT">>

C12_FrameStep ==
    \A b \in boxers : \A c \in boxers' :
        c.id = b.id =>
            /\ c.name = b.name /\ c.weight = b.weight /\ c.height = b.height
            /\ c.reach = b.reach /\ c.age = b.age
            /\ (c.fights # b.fights \/ c.wins # b.wins) =>
                   (last'.op = "update" /\ last'.outcome = "ok" /\ last'.args[1] = b.id)

C12_OnlyUpdateWritesCounters == [][C12_FrameStep]_vars

\* a result was recorded for one of two stored boxers; the other has no fights
C12_Witness ==
    /\ LastIs("update") /\ last.outcome = "ok"
    /\ \E b, c \in boxers :
          /\ b.id = last.args[1] /\ b.fights > 0
          /\ c.id # b.id /\ c.fights = 0

\* ---- C13 ----------------------------------------------------------------------
\* C13: every stored boxer has weight >= 125, height > 0, reach > 0,
\* 18 <= age <= 40 and a non-empty name, so its weight has a class and no lookup
\* or leaderboard call ends in the classification error.
C13_StoredFieldsValid ==
    /\ \A b \in boxers :
          /\ b.weight >= 125 /\ b.height > 0 /\ b.reach > 0
          /\ 18 <= b.age /\ b.age <= 40
          /\ b.name # <<>>
          /\ get_weight_class(b.weight) # "InvalidWeight"
    /\ last.op \in {"get_by_id", "get_by_name", "leaderboard"} =>
          last.outcome # "InvalidWeight"

\* ---- C14 ----------------------------------------------------------------------
\* C14: when creates of the same trimmed name run at the same time and both pass
\* the existence check before either inserts, at most one record with that name
\* is stored and the losing call ends in the conflict error.
C14_RaceStep ==
    /\ \A p \in Procs :
          (procs[p].at = "create_insert" /\ procs'[p].at = "idle") =>
              IF \E b \in boxers : strip(b.name) = strip(procs[p].args[1])
              THEN last'.outcome = ConflictError /\ boxers' = boxers
              ELSE last'.outcome = "ok"
    /\ UniqueTrimmedNames'

C14_CreateRaceSafe == [][C14_RaceStep]_vars

C16_AtomicStep ==
    \A p \in Procs :
        /\ (procs[p].at = "delete_write" /\ procs'[p].at = "idle") =>
              /\ procs[p].args[1] \notin deleted
              /\ \E b \in boxers : b.id = procs[p].args[1]
        /\ (procs[p].at = "update_write" /\ procs'[p].at = "idle") =>
              \E b \in boxers : b.id = procs[p].args[1]

C16_CheckAndWriteAtomic == [][C16_AtomicStep]_vars

\* ---- C17 ----------------------------------------------------------------------
\* C17: an update whose counters would break wins <= fights fails with the
\* invariant-violation error, and the counters it had computed are never written
\* to the boxer's row, neither by that call nor by a later commit on the session.
C17_RejectedStep ==
    /\ (last'.op = "update_stats" /\ last'.outcome = InvariantViolationError) =>
           boxers' = boxers
    /\ \A r \in session'.rejected :
           ~(\E b \in boxers' : b.id = r.id /\ b.fights = r.fights /\ b.wins = r.wins)

====
